---- MODULE Spec2Model ----
(***************************************************************************)
(* GraphAPIMailBackend (django_graph_api_mail_backend/                     *)
(* graph_api_mail_backend.py): the token held by the backend, open(), and  *)
(* the send_messages loop, one step per loop iteration.  The HTTP server   *)
(* and the injected clock are the environment: every response and every    *)
(* clock reading is drawn nondeterministically.                            *)
(***************************************************************************)
EXTENDS Integers, Sequences, FiniteSets, TLC

(* ------------------------------ bounds -------------------------------- *)

\* Largest number of messages in one batch.
MaxLen == 2

\* Largest clock reading (the clock never runs backwards).
MaxTime == 1

\* Largest expires_in a token response carries.
MaxExpires == 1

(* --------------------------- data and helpers ------------------------- *)

\* self._access_token = None
None == [value |-> "", expires_in_seconds |-> 0, refresh_token |-> "",
         access_timestamp |-> 0]

\* The (access_token, refresh_token) pairs the token endpoint issues: opaque
\* strings the backend stores and sends back, never inspects.
Grants == { [access_token |-> "access-1", refresh_token |-> "refresh-1"],
            [access_token |-> "access-2", refresh_token |-> "refresh-2"] }

\* What a POST to the token endpoint can come back with: a transport
\* exception, a non-success status, or a JSON body.
TokenResponses ==
    [kind : {"exc", "status"}, access_token : {""}, expires_in : {0},
     refresh_token : {""}]
    \cup { [kind |-> "ok", access_token |-> g.access_token, expires_in |-> e,
            refresh_token |-> g.refresh_token] : g \in Grants, e \in 0..MaxExpires }

\* What a POST to the sendMail endpoint can come back with.
SendResponses == {"ok", "status", "exc"}

\* EmailMessage: the fields the backend reads.  Strings the backend takes
\* apart (from_email) are sequences of one-character strings.
Message(to, cc, bcc, from_email) ==
    [to |-> to, cc |-> cc, bcc |-> bcc, from_email |-> from_email]

\* The messages a batch is made of: without recipients, and with one
\* recipient in To, in Cc or in Bcc; with a bare sender and with a display name.
Messages ==
    { Message(<<>>, <<>>, <<>>, <<"b">>),
      Message(<<"r">>, <<>>, <<>>, <<"b">>),
      Message(<<"r">>, <<>>, <<>>, <<"N", " ", "<", "a", ">">>),
      Message(<<>>, <<"r">>, <<>>, <<"M", "<", "c", ">">>),
      Message(<<>>, <<>>, <<"r">>, <<"b">>) }

\* EmailMessage.recipients()
Recipients(m) == m.to \o m.cc \o m.bcc

TenantId == "tenant"

construct_token_endpoint(tenant_id) ==
    <<"https://login.microsoftonline.com/", tenant_id, "/oauth2/v2.0/token">>

construct_send_email_endpoint(from_email) ==
    <<"https://graph.microsoft.com/v1.0/users/">> \o from_email \o <<"/sendMail">>

\* Variant of SplitLast: s.split(c, 1)[-1], the cut is made at the first c.
SplitAfterFirst(s, c) ==
    LET at == { k \in 1..Len(s) : s[k] = c }
    IN  IF at = {} THEN s
        ELSE SubSeq(s, (CHOOSE k \in at : \A j \in at : k <= j) + 1, Len(s))

\* s.split(c)[-1]
SplitLast(s, c) ==
    LET at == { k \in 1..Len(s) : s[k] = c }
    IN  IF at = {} THEN s
        ELSE SubSeq(s, (CHOOSE k \in at : \A j \in at : j <= k) + 1, Len(s))

\* s.split(c)[0]
SplitFirst(s, c) ==
    LET at == { k \in 1..Len(s) : s[k] = c }
    IN  IF at = {} THEN s
        ELSE SubSeq(s, 1, (CHOOSE k \in at : \A j \in at : k <= j) - 1)

\* Variant of ExtractAddress: the sender is used as given.
KeepSender(from_email) == from_email

\* from_email.split('<')[-1].split('>')[0]
ExtractAddress(from_email) == SplitFirst(SplitLast(from_email, "<"), ">")

\* GraphAPIAccessToken(value=..., expires_in_seconds=..., refresh_token=...,
\*                     access_timestamp=self._get_now())
MakeToken(response, now) ==
    [value |-> response.access_token,
     expires_in_seconds |-> response.expires_in,
     refresh_token |-> response.refresh_token,
     access_timestamp |-> now]

\* The claims' notion of a live token (not the code's test, which is
\* TokenExpired): live at t iff t < acquiredAt + expiresInSeconds.
Live(token, t) == t < token.access_timestamp + token.expires_in_seconds

\* Variant of TokenExpired: a token is still used at its deadline.
ExpiredStrictly(token, now) ==
    token.access_timestamp + token.expires_in_seconds < now

\* access_timestamp + timedelta(seconds=expires_in_seconds) <= self._get_now()
TokenExpired(token, now) ==
    token.access_timestamp + token.expires_in_seconds <= now

\* self._http_session.headers = {'Content-Type': 'text/plain',
\*                               'Authorization': f'Bearer {token.value}'}
SessionHeaders(token) ==
    [Content_Type |-> "text/plain", Authorization |-> token.value]

\* The headers of a requests.Session nobody has set: no Authorization.
DefaultHeaders == [Content_Type |-> "default", Authorization |-> ""]

\* Variants of OpenReraises and LoopSwallows that ignore fail_silently.
RaiseAlways(fs) == TRUE

RaiseNever(fs) == FALSE

SwallowAlways(fs) == TRUE

SwallowNever(fs) == FALSE

\* open(): `if not self.fail_silently: raise`
OpenReraises(fs) == ~fs

\* send_messages(): `if self.fail_silently: continue` (else `raise`)
LoopSwallows(fs) == fs

\* Variant of SkipCondition: no recipients check.
SkipNothing(m) == FALSE

\* `if not email_message.recipients(): ... continue`
SkipCondition(m) == Recipients(m) = <<>>

\* Variant of CountSent: every answered send is counted.
CountAlways(count, response) == count + 1

\* `if response.ok: sent_count += 1`
CountSent(count, response) == IF response = "ok" THEN count + 1 ELSE count

\* Variant of SendRaises: the send response goes through raise_for_status().
RaisesOnStatus(response) == response # "ok"

\* session.post() raises RequestException on a transport failure only; the
\* send response is never passed to raise_for_status().
SendRaises(response) == response = "exc"

\* Variant of NextIndex: the loop stays at the message it just handled.
SameIndex(i) == i

\* `for email_message in email_messages`: on to the next message.
NextIndex(i) == i + 1

\* Variant of AlreadyOpen: open() does not look at the session it holds.
NeverOpen(session) == FALSE

\* open(): `if self._http_session is not None: return False`
AlreadyOpen(session) == session # "None"

\* Variant of AfterFailedRefresh: a failed refresh forgets the token.
DropToken(token) == None

\* `self._access_token = self._refresh_access_token()`: the call raised, so
\* nothing is assigned.
AfterFailedRefresh(token) == token

\* Variant of FailedSilently: send_messages goes into the loop whatever
\* open() returned.
NeverFailedSilently(ret, token) == FALSE

\* `failed_silently = not self.open() and self._access_token is None`
FailedSilently(ret, token) == ret = "False" /\ token = None

AcquireRequest(response) ==
    [kind |-> "client_credentials", url |-> construct_token_endpoint(TenantId),
     credential |-> "client_secret", response |-> response.kind]

\* Variant of RefreshRequest: the access token's value is sent in place of
\* its refresh token.
RefreshWithValue(token, response) ==
    [kind |-> "refresh_token", url |-> construct_token_endpoint(TenantId),
     credential |-> token.value, response |-> response.kind]

\* _refresh_access_token: grant_type refresh_token, with the refresh token
\* of the token stored when it is called.
RefreshRequest(token, response) ==
    [kind |-> "refresh_token", url |-> construct_token_endpoint(TenantId),
     credential |-> token.refresh_token, response |-> response.kind]

SendRequest(hdrs, from_email, response) ==
    [kind |-> "sendMail", url |-> construct_send_email_endpoint(from_email),
     credential |-> hdrs.Authorization, response |-> response]

\* open(): what it returns ("True", "False" or "raised") and what it leaves in
\* the backend, given the token endpoint's response and the clock reading.
OpenOutcome(session, token, hdrs, fs, response, now) ==
    IF AlreadyOpen(session)
    THEN [ret |-> "False", http_session |-> session, access_token |-> token,
          headers |-> hdrs, requests |-> <<>>]
    ELSE IF response.kind = "ok"
    THEN LET fresh == MakeToken(response, now)
         IN  [ret |-> "True", http_session |-> "Session", access_token |-> fresh,
              headers |-> SessionHeaders(fresh),
              requests |-> <<AcquireRequest(response)>>]
    ELSE [ret |-> IF OpenReraises(fs) THEN "raised" ELSE "False",
          http_session |-> "Session", access_token |-> token, headers |-> hdrs,
          requests |-> <<AcquireRequest(response)>>]

(* ------------------------------- state -------------------------------- *)

\* send_messages is modelled one loop iteration per step.  Nothing the loop
\* does depends on a message before the iteration that handles it, so of the
\* batch the state holds its length and the message the loop is at; each
\* message is drawn when the loop reaches it.
VARIABLES
    fail_silently,   \* BaseEmailBackend.fail_silently
    http_session,    \* self._http_session: "None" or "Session"
    headers,         \* self._http_session.headers
    access_token,    \* self._access_token
    clock,           \* the last reading of get_now()
    pc,              \* "idle", "loop" (inside send_messages), "returned", "raised"
    method,          \* the call that is running or ran last
    opened,          \* what the last open() gave: "True", "False", "raised"
    result,          \* what send_messages returned
    batch_len,       \* len(email_messages)
    index,           \* position of the loop in email_messages
    email_message,   \* the message the last iteration handled, as it left it
    sent_count,      \* sent_count
    requests,        \* the requests the last step issued, in order
    step,            \* what the last step was and what it read
    sends,           \* send requests this call has issued
    delivered,       \* success responses this call's send requests got
    first_send,      \* the response to this call's first send request
    refreshes,       \* refresh_token requests this call has issued
    construction,    \* the constructor call: its arguments, the settings, its outcome
    sender,          \* a sender string and what line 147 makes of it
    acquisitions     \* client_credentials requests issued so far

vars == <<fail_silently, http_session, headers, access_token, clock, pc, method,
          opened, result, batch_len, index, email_message, sent_count, requests,
          step, sends, delivered, first_send, refreshes, acquisitions,
          construction, sender>>

NoMessage == [to |-> <<>>, cc |-> <<>>, bcc |-> <<>>, from_email |-> <<>>]

\* kind: which step; index: the message's position; now: the clock reading
\* taken for the message; live: whether the token stored when that reading
\* was taken was live at it; report: what was logged; given: the message as
\* the caller supplied it.
NoStep == [kind |-> "none", index |-> 0, now |-> 0, live |-> FALSE,
           report |-> "none", given |-> NoMessage]

\* __init__
\* The fields __init__ sets (lines 39, 43, 44), nothing called yet.
FreshBackend ==
    /\ fail_silently \in BOOLEAN
    /\ http_session = "None"
    /\ headers = DefaultHeaders
    /\ access_token = None
    /\ clock = 0
    /\ pc = "idle"
    /\ method = "none"
    /\ opened = "none"
    /\ result = 0
    /\ batch_len = 0
    /\ index = 0
    /\ email_message = NoMessage
    /\ sent_count = 0
    /\ requests = <<>>
    /\ step = NoStep
    /\ sends = 0
    /\ delivered = 0
    /\ first_send = "none"
    /\ refreshes = 0
    /\ acquisitions = 0

\* The backend as the tests construct it: every credential passed in, no
\* setting consulted for them.
Given == [client_id |-> "given", client_secret |-> "given", tenant_id |-> "given"]

Constructed ==
    [kwargs |-> Given, settings |-> {}, outcome |-> "backend",
     client_id |-> "given", client_secret |-> "given",
     authority |-> construct_token_endpoint("given"), timeout |-> "kwarg"]

NoSender == [from_email |-> <<>>, normalized |-> FALSE, address |-> <<>>,
             resent |-> FALSE, again |-> <<>>]

Init ==
    /\ FreshBackend
    /\ construction = Constructed
    /\ sender = NoSender

(* ------------------------------ actions ------------------------------- *)

\* The token endpoint answers, and the clock is read, only when open() gets
\* as far as the acquisition request.
AcquireResponses == IF ~AlreadyOpen(http_session) THEN TokenResponses
                    ELSE { [kind |-> "exc", access_token |-> "", expires_in |-> 0,
                            refresh_token |-> ""] }

AcquireReadings(response) ==
    IF ~AlreadyOpen(http_session) /\ response.kind = "ok" THEN clock..MaxTime
    ELSE {clock}

\* The effect of open() on the backend, shared by a direct call and by the
\* call send_messages makes.
OpenEffect(out, now) ==
    /\ http_session' = out.http_session
    /\ access_token' = out.access_token
    /\ headers' = out.headers
    /\ requests' = out.requests
    /\ opened' = out.ret
    /\ acquisitions' = acquisitions + Len(out.requests)
    /\ clock' = now
    /\ step' = [NoStep EXCEPT !.kind = "open",
                              !.report = IF out.requests # <<>> /\ out.ret # "True"
                                         THEN "error" ELSE "none"]
    /\ email_message' = NoMessage

\* The caller calls open().
Open ==
    /\ pc # "loop"
    /\ \E response \in AcquireResponses :
       \E now \in AcquireReadings(response) :
          LET out == OpenOutcome(http_session, access_token, headers,
                                 fail_silently, response, now)
          IN  /\ OpenEffect(out, now)
              /\ pc' = IF out.ret = "raised" THEN "raised" ELSE "returned"
    /\ method' = "open"
    /\ result' = 0
    /\ batch_len' = 0
    /\ index' = 0
    /\ sent_count' = 0
    /\ sends' = 0
    /\ delivered' = 0
    /\ first_send' = "none"
    /\ refreshes' = 0
    /\ UNCHANGED <<fail_silently, construction, sender>>

\* The caller calls send_messages with a batch of n messages: open(), then
\* return 0, raise, or enter the loop.
SendMessages ==
    /\ pc # "loop"
    /\ \E n \in 0..MaxLen, response \in AcquireResponses :
       \E now \in AcquireReadings(response) :
          LET out == OpenOutcome(http_session, access_token, headers,
                                 fail_silently, response, now)
          IN  /\ OpenEffect(out, now)
              /\ batch_len' = n
              /\ pc' = IF out.ret = "raised" THEN "raised"
                       ELSE IF FailedSilently(out.ret, out.access_token)
                       THEN "returned" ELSE "loop"
              /\ index' = IF out.ret # "raised"
                             /\ ~FailedSilently(out.ret, out.access_token)
                          THEN 1 ELSE 0
    /\ method' = "send_messages"
    /\ result' = 0
    /\ sent_count' = 0
    /\ sends' = 0
    /\ delivered' = 0
    /\ first_send' = "none"
    /\ refreshes' = 0
    /\ UNCHANGED <<fail_silently, construction, sender>>

InLoop == pc = "loop" /\ index <= batch_len

\* `except RequestException`: log, then continue or raise.
HandleRequestException ==
    IF LoopSwallows(fail_silently)
    THEN pc' = "loop" /\ index' = NextIndex(index)
    ELSE pc' = "raised" /\ index' = index

\* A message without recipients: warn and continue.
SkipMessage ==
    /\ InLoop
    /\ \E m \in Messages :
          /\ SkipCondition(m)
          /\ email_message' = m
          /\ step' = [NoStep EXCEPT !.kind = "skip", !.index = index,
                                    !.report = "warning", !.given = m]
    /\ index' = NextIndex(index)
    /\ requests' = <<>>
    /\ UNCHANGED <<fail_silently, http_session, headers, access_token, clock, pc,
                   method, opened, result, batch_len, sent_count, sends, delivered,
                   first_send, refreshes, acquisitions, construction, sender>>

\* What the iteration for message m read: the clock, and the stored token.
AttemptStep(m, now, report) ==
    [kind |-> "attempt", index |-> index, now |-> now,
     live |-> Live(access_token, now),
     report |-> report, given |-> m]

\* The send request for message m, after the expiry check at reading `now`
\* (and the refresh, when there was one) left `token` stored and `earlier`
\* issued.
Deliver(m, now, token, earlier) ==
    \E response \in SendResponses :
        LET from_email == ExtractAddress(m.from_email)
        IN  /\ access_token' = token
            /\ email_message' = [m EXCEPT !.from_email = from_email]
            /\ requests' = Append(earlier, SendRequest(headers, from_email, response))
            /\ sends' = sends + 1
            /\ delivered' = IF response = "ok" THEN delivered + 1 ELSE delivered
            /\ first_send' = IF sends = 0 THEN response ELSE first_send
            /\ IF SendRaises(response)
               THEN /\ sent_count' = sent_count
                    /\ HandleRequestException
                    /\ step' = AttemptStep(m, now, "error")
               ELSE /\ sent_count' = CountSent(sent_count, response)
                    /\ pc' = "loop"
                    /\ index' = NextIndex(index)
                    /\ step' = AttemptStep(m, now, "none")

\* A message with recipients while the token has not expired: send.
SendLive ==
    /\ InLoop
    /\ \E m \in Messages, now \in clock..MaxTime :
          /\ ~SkipCondition(m)
          /\ ~TokenExpired(access_token, now)
          /\ clock' = now
          /\ Deliver(m, now, access_token, <<>>)
    /\ UNCHANGED <<fail_silently, http_session, headers, method, opened, result,
                   batch_len, refreshes, acquisitions, construction, sender>>

\* A message with recipients while the token has expired, and the refresh
\* succeeds: store the new token, stamped with a second clock reading, then
\* send.
RefreshAndSend ==
    /\ InLoop
    /\ \E m \in Messages, now \in clock..MaxTime :
          /\ ~SkipCondition(m)
          /\ TokenExpired(access_token, now)
          /\ \E response \in TokenResponses, stamp \in now..MaxTime :
                /\ response.kind = "ok"
                /\ clock' = stamp
                /\ Deliver(m, now, MakeToken(response, stamp),
                           <<RefreshRequest(access_token, response)>>)
    /\ refreshes' = refreshes + 1
    /\ UNCHANGED <<fail_silently, http_session, headers, method, opened, result,
                   batch_len, acquisitions, construction, sender>>

\* A message with recipients while the token has expired, and the refresh
\* fails: no send request for this message.
RefreshFails ==
    /\ InLoop
    /\ \E m \in Messages, now \in clock..MaxTime :
          /\ ~SkipCondition(m)
          /\ TokenExpired(access_token, now)
          /\ clock' = now
          /\ \E response \in TokenResponses :
                /\ response.kind # "ok"
                /\ requests' = <<RefreshRequest(access_token, response)>>
          /\ email_message' = [m EXCEPT !.from_email = ExtractAddress(@)]
          /\ step' = AttemptStep(m, now, "error")
    /\ access_token' = AfterFailedRefresh(access_token)
    /\ refreshes' = refreshes + 1
    /\ HandleRequestException
    /\ UNCHANGED <<fail_silently, http_session, headers, method, opened, result,
                   batch_len, sent_count, sends, delivered, first_send,
                   acquisitions, construction, sender>>

\* The loop is over: log the summary and return sent_count.
FinishLoop ==
    /\ pc = "loop"
    /\ index > batch_len
    /\ pc' = "returned"
    /\ result' = sent_count
    /\ requests' = <<>>
    /\ step' = [NoStep EXCEPT !.kind = "finish", !.index = index]
    /\ email_message' = NoMessage
    /\ UNCHANGED <<fail_silently, http_session, headers, access_token, clock,
                   method, opened, batch_len, index, sent_count, sends, delivered,
                   first_send, refreshes, acquisitions, construction, sender>>

\* close(): `self._http_session.close()` on a backend that never opened a
\* session is None.close(), an AttributeError.
CloseRaises(session) == session = "None"

\* The caller calls close().  The session object is told to close; the
\* attributes _http_session and _access_token are not assigned, and the
\* session's headers stay as they are.
Close ==
    /\ pc # "loop"
    /\ pc' = IF CloseRaises(http_session) THEN "raised" ELSE "returned"
    /\ method' = "close"
    /\ step' = [NoStep EXCEPT !.kind = "close"]
    /\ requests' = <<>>
    /\ email_message' = NoMessage
    /\ opened' = "none"
    /\ result' = 0
    /\ batch_len' = 0
    /\ index' = 0
    /\ sent_count' = 0
    /\ sends' = 0
    /\ delivered' = 0
    /\ first_send' = "none"
    /\ refreshes' = 0
    /\ UNCHANGED <<fail_silently, http_session, headers, access_token, clock,
                   acquisitions, construction, sender>>

Next ==
    \/ Open
    \/ SendMessages
    \/ Close
    \/ SkipMessage
    \/ SendLive
    \/ RefreshAndSend
    \/ RefreshFails
    \/ FinishLoop

Spec == Init /\ [][Next]_vars

(* ---------------------------- construction ---------------------------- *)

\* The settings __init__ reads.
SettingNames ==
    {"ADFS_CLIENT_ID", "ADFS_CLIENT_SECRET", "ADFS_TENANT_ID",
     "GRAPH_MAIL_BACKEND_TIMEOUT"}

\* What a credential argument can be: left out (None), empty, or a value.
ArgValues == {"None", "", "given"}

\* Python's truth value of a str | None argument.
Truthy(arg) == arg \notin {"None", ""}

\* Variant of OrSetting: a missing setting reads as None instead of raising.
OrNone(arg, name, defined) ==
    IF Truthy(arg) THEN arg ELSE IF name \in defined THEN "settings" ELSE "None"

\* `arg or settings.NAME`: the setting is read only when the argument is
\* falsy, and reading a setting nobody defined raises AttributeError.
OrSetting(arg, name, defined) ==
    IF Truthy(arg) THEN arg
    ELSE IF name \in defined THEN "settings" ELSE "AttributeError"

\* Lines 47-50: the setting wins over the argument, which is the fallback.
Timeout(defined) ==
    IF "GRAPH_MAIL_BACKEND_TIMEOUT" \in defined THEN "settings" ELSE "kwarg"

\* The three lookups of lines 40-42.
Lookups(kwargs, defined) ==
    [client_id     |-> OrSetting(kwargs.client_id, "ADFS_CLIENT_ID", defined),
     client_secret |-> OrSetting(kwargs.client_secret, "ADFS_CLIENT_SECRET", defined),
     tenant_id     |-> OrSetting(kwargs.tenant_id, "ADFS_TENANT_ID", defined)]

Raises(found) ==
    "AttributeError" \in {found.client_id, found.client_secret, found.tenant_id}

Unset == <<>>

\* The caller is about to construct a backend: any credential arguments,
\* any subset of the settings defined.
InitConstruction ==
    /\ FreshBackend
    /\ \E kwargs \in [client_id : ArgValues, client_secret : ArgValues,
                       tenant_id : ArgValues],
          defined \in SUBSET SettingNames :
            construction = [kwargs |-> kwargs, settings |-> defined,
                            outcome |-> "pending", client_id |-> "",
                            client_secret |-> "", authority |-> Unset,
                            timeout |-> ""]
    /\ sender = NoSender

\* __init__ runs to its end: the caller holds a backend.
Construct ==
    /\ construction.outcome = "pending"
    /\ LET found == Lookups(construction.kwargs, construction.settings)
       IN  /\ ~Raises(found)
           /\ construction' =
                 [construction EXCEPT
                    !.outcome = "backend",
                    !.client_id = found.client_id,
                    !.client_secret = found.client_secret,
                    !.authority = construct_token_endpoint(found.tenant_id),
                    !.timeout = Timeout(construction.settings)]
    /\ UNCHANGED <<fail_silently, http_session, headers, access_token, clock, pc,
                   method, opened, result, batch_len, index, email_message,
                   sent_count, requests, step, sends, delivered, first_send,
                   refreshes, acquisitions, sender>>

\* One of lines 40-42 raises AttributeError out of __init__: the caller gets
\* the exception and no object.
ConstructRaises ==
    /\ construction.outcome = "pending"
    /\ Raises(Lookups(construction.kwargs, construction.settings))
    /\ construction' = [construction EXCEPT !.outcome = "AttributeError"]
    /\ UNCHANGED <<fail_silently, http_session, headers, access_token, clock, pc,
                   method, opened, result, batch_len, index, email_message,
                   sent_count, requests, step, sends, delivered, first_send,
                   refreshes, acquisitions, sender>>

NextConstruction ==
    \/ Construct
    \/ ConstructRaises

SpecConstruction == InitConstruction /\ [][NextConstruction]_vars

(* ------------------------ sender normalization ------------------------ *)

MaxSender == 3

Alphabet == {"a", "b", "<", ">"}

\* Every string over the alphabet of at most MaxSender characters.
Senders == UNION { [1..n -> Alphabet] : n \in 0..MaxSender }

\* A message's from_email, before line 147 has run on it.
InitSender ==
    /\ FreshBackend
    /\ construction = Constructed
    /\ \E s \in Senders :
          sender = [NoSender EXCEPT !.from_email = s]

\* Line 147.
Normalize ==
    /\ ~sender.normalized
    /\ sender' = [sender EXCEPT !.normalized = TRUE,
                                !.address = ExtractAddress(sender.from_email)]
    /\ UNCHANGED <<fail_silently, http_session, headers, access_token, clock, pc,
                   method, opened, result, batch_len, index, email_message,
                   sent_count, requests, step, sends, delivered, first_send,
                   refreshes, acquisitions, construction>>

\* Line 147 again, for the same message object in a later batch: the first
\* run left the address in the message's from_email, so this one reads it.
NormalizeAgain ==
    /\ sender.normalized /\ ~sender.resent
    /\ sender' = [sender EXCEPT !.resent = TRUE,
                                !.again = ExtractAddress(sender.address)]
    /\ UNCHANGED <<fail_silently, http_session, headers, access_token, clock, pc,
                   method, opened, result, batch_len, index, email_message,
                   sent_count, requests, step, sends, delivered, first_send,
                   refreshes, acquisitions, construction>>

NextSender ==
    \/ Normalize
    \/ NormalizeAgain

SpecSender == InitSender /\ [][NextSender]_vars

(* ---------------------- vocabulary of the claims ---------------------- *)

IsSend(r) == r.kind = "sendMail"

IsRefresh(r) == r.kind = "refresh_token"

IsAcquire(r) == r.kind = "client_credentials"

\* A request that ended in a RequestException: a token request answered by a
\* transport failure or a non-success status (raise_for_status), a send
\* request answered by a transport failure.
Failed(r) == IF IsSend(r) THEN r.response = "exc" ELSE r.response # "ok"

Count(P(_)) == Cardinality({ k \in DOMAIN requests : P(requests[k]) })

Attempted == step.kind = "attempt"

\* The last step was an iteration of the loop whose last request failed.
FailedInLoop == Attempted /\ requests # <<>> /\ Failed(requests[Len(requests)])

\* The last step was an open() whose acquisition request failed.
AcquisitionFailed ==
    step.kind = "open" /\ requests # <<>> /\ Failed(requests[1])

SendCall == method = "send_messages"

HasAngle(s) == \E k \in DOMAIN s : s[k] \in {"<", ">"}

\* s is of the form "Name <addr>" with bare address addr.
DisplayForm(s, addr) ==
    /\ ~HasAngle(addr)
    /\ Len(s) >= Len(addr) + 2
    /\ s[Len(s)] = ">"
    /\ s[Len(s) - Len(addr) - 1] = "<"
    /\ SubSeq(s, Len(s) - Len(addr), Len(s) - 1) = addr

Addresses == { <<"a">>, <<"b">>, <<"c">> }

(* ------------------------------- claims ------------------------------- *)

\* C1: send_messages returns exactly the number of send requests that got a
\* success status; skipped and soft-failed messages are not counted.  In
\* particular, when each of N >= 1 messages got its send request, the first
\* was answered by a non-success status and the others succeeded, the result
\* is N - 1, with N send requests and one acquisition request.
C1_ResultCountsSuccessfulSends ==
    /\ pc = "loop" => sent_count = delivered
    /\ (SendCall /\ pc = "returned") =>
          /\ result = delivered
          /\ result <= sends
          /\ (/\ batch_len >= 1
              /\ sends = batch_len
              /\ first_send = "status"
              /\ delivered = sends - 1)
             => (result = batch_len - 1 /\ acquisitions = 1)

C1_Witness ==
    /\ SendCall /\ pc = "returned"
    /\ batch_len = MaxLen /\ sends = batch_len
    /\ first_send = "status" /\ result = batch_len - 1

\* C2: for a message with recipients, read at clock reading `now`: when
\* now < access_timestamp + expires_in_seconds of the stored token, no refresh
\* request is issued for it; otherwise exactly one is, before the send.
C2_RefreshExactlyWhenExpired ==
    Attempted =>
        /\ step.live =>
              /\ Count(IsRefresh) = 0
              /\ step.now < access_token.access_timestamp
                            + access_token.expires_in_seconds
        /\ ~step.live =>
              /\ Count(IsRefresh) = 1
              /\ IsRefresh(requests[1])
              /\ \A k \in DOMAIN requests : k > 1 => IsSend(requests[k])
        /\ Count(IsSend) <= 1
        /\ Count(IsAcquire) = 0

\* A second message whose reading is at the deadline, after a first one sent
\* without a refresh: it is refreshed, then sent.
C2_Witness ==
    /\ Attempted /\ step.index = 2 /\ sends = 2
    /\ ~step.live
    /\ Len(requests) = 2 /\ IsRefresh(requests[1]) /\ IsSend(requests[2])
    /\ step.now = 1

\* C3: every send request carries the bearer value of the token the backend
\* stores when it is sent.
C3_SendCarriesStoredToken ==
    \A k \in DOMAIN requests :
        IsSend(requests[k]) => requests[k].credential = access_token.value

\* C4: with fail-silently on, a failed acquisition makes open() return False
\* and send_messages return 0, without raising and without a send request.
C4_SilentAcquisitionFailure ==
    (fail_silently /\ AcquisitionFailed) =>
        /\ opened = "False"
        /\ pc = "returned"
        /\ access_token = None
        /\ Len(requests) = 1
        /\ SendCall => (result = 0 /\ sends = 0 /\ index = 0)

C4_Witness ==
    /\ fail_silently /\ AcquisitionFailed /\ SendCall
    /\ batch_len = MaxLen /\ requests[1].response = "status"
    /\ pc = "returned" /\ result = 0

\* C5: with fail-silently off, a failed acquisition makes open(), and the
\* send_messages call that made it, raise; no send request is issued and no
\* access token is stored.
C5_AcquisitionFailureRaises ==
    (~fail_silently /\ AcquisitionFailed) =>
        /\ opened = "raised"
        /\ pc = "raised"
        /\ access_token = None
        /\ Len(requests) = 1
        /\ SendCall => (sends = 0 /\ index = 0)

C5_Witness ==
    /\ ~fail_silently /\ AcquisitionFailed /\ SendCall
    /\ batch_len = MaxLen /\ requests[1].response = "exc"
    /\ pc = "raised"

\* C6: with fail-silently off, the first refresh failure or send transport
\* failure makes send_messages raise at that message: the failed request is
\* the last one issued (after a failed refresh, no send), the messages sent
\* before stay counted, and the loop goes no further.
C6_FirstFailureAborts ==
    ~fail_silently =>
        /\ FailedInLoop =>
              /\ pc = "raised"
              /\ index = step.index
              /\ \A k \in DOMAIN requests : Failed(requests[k]) => k = Len(requests)
              /\ IsRefresh(requests[Len(requests)]) => Count(IsSend) = 0
              /\ sent_count = delivered
        /\ (SendCall /\ pc = "loop") => step.report # "error"

\* The second message's refresh fails after the first message was sent.
C6_Witness ==
    /\ ~fail_silently /\ FailedInLoop /\ pc = "raised"
    /\ step.index = 2 /\ delivered = 1 /\ sent_count = 1
    /\ requests = <<requests[1]>> /\ IsRefresh(requests[1])

\* C7: with fail-silently on, neither open() nor send_messages ever raises; a
\* refresh failure or send transport failure leaves the message uncounted and
\* the loop goes on to the next message, up to the end of the batch.
C7_SilentNeverRaises ==
    fail_silently =>
        /\ method \in {"open", "send_messages"} => pc # "raised"
        /\ opened # "raised"
        /\ FailedInLoop =>
              /\ pc = "loop"
              /\ index = step.index + 1
              /\ sent_count = delivered
              /\ IsRefresh(requests[Len(requests)]) => Count(IsSend) = 0
              /\ IsSend(requests[Len(requests)]) => delivered < sends
        /\ step.kind = "finish" => (pc = "returned" /\ index = batch_len + 1)

\* A failure on the first message, with the second still to come.
C7_Witness ==
    /\ fail_silently /\ FailedInLoop
    /\ step.index = 1 /\ index = 2 /\ batch_len = 2 /\ pc = "loop"
    /\ IsSend(requests[Len(requests)])

\* C8: a message whose To, Cc and Bcc are all empty is skipped: no request is
\* issued for it, a warning is reported, it is not counted, and the loop goes
\* on to the next message.
C8_NoRecipientsSkipped ==
    (step.kind \in {"skip", "attempt"} /\ Recipients(step.given) = <<>>) =>
        /\ step.kind = "skip"
        /\ requests = <<>>
        /\ step.report = "warning"
        /\ pc = "loop"
        /\ index = step.index + 1
        /\ sent_count = delivered
        /\ sends < index - 1

C8_Witness ==
    /\ ~fail_silently /\ step.kind = "skip"
    /\ step.given.to = <<>> /\ step.given.cc = <<>> /\ step.given.bcc = <<>>
    /\ step.index = 2 /\ sends = 1

\* C9: a non-success status on a send request does not raise, whatever
\* fail_silently is: the message is not counted and the loop goes on.
C9_SoftFailureContinues ==
    (Attempted /\ requests # <<>> /\ IsSend(requests[Len(requests)])
       /\ requests[Len(requests)].response = "status") =>
        /\ pc = "loop"
        /\ index = step.index + 1
        /\ step.report = "none"
        /\ sent_count = delivered
        /\ delivered < sends

C9_Witness ==
    /\ ~fail_silently /\ Attempted /\ pc = "loop"
    /\ step.index = 1 /\ batch_len = 2
    /\ IsSend(requests[Len(requests)])
    /\ requests[Len(requests)].response = "status"

\* C10: for a sender "Name <addr>", the send request goes to the endpoint
\* built from addr, not from the sender as given.
C10_DisplayNameStripped ==
    \A k \in DOMAIN requests : \A addr \in Addresses :
        (Attempted /\ IsSend(requests[k])
           /\ DisplayForm(step.given.from_email, addr)) =>
            /\ requests[k].url = <<"https://graph.microsoft.com/v1.0/users/">>
                                 \o addr \o <<"/sendMail">>
            /\ requests[k].url # <<"https://graph.microsoft.com/v1.0/users/">>
                                 \o step.given.from_email \o <<"/sendMail">>

C10_Witness ==
    /\ Attempted /\ requests # <<>> /\ IsSend(requests[Len(requests)])
    /\ step.given.from_email = <<"N", " ", "<", "a", ">">>
    /\ requests[Len(requests)].url =
          <<"https://graph.microsoft.com/v1.0/users/", "a", "/sendMail">>

\* C11: within one send_messages call the messages are handled in the order
\* supplied, each at most once: the loop is at position 1 when it starts,
\* moves on by exactly one after every message it handles without raising,
\* and ends at batch_len + 1.  The requests of one iteration all belong to
\* the message at that position: at most one refresh and at most one send,
\* the refresh first, the send to the endpoint of that message's sender; so
\* the requests for message i are over before any for message i + 1.
C11_InOrderOncePerMessage ==
    /\ (SendCall /\ step.kind = "open" /\ pc = "loop") => index = 1
    /\ step.kind \in {"skip", "attempt"} =>
          /\ SendCall
          /\ step.index \in 1..batch_len
          /\ pc \in {"loop", "raised"}
          /\ pc = "loop" => index = step.index + 1
          /\ pc = "raised" => index = step.index
          /\ sends <= step.index /\ refreshes <= step.index
          /\ Count(IsRefresh) <= 1 /\ Count(IsSend) <= 1
          /\ Len(requests) = Count(IsRefresh) + Count(IsSend)
          /\ \A k \in DOMAIN requests :
                IsSend(requests[k]) =>
                    /\ k = Len(requests)
                    /\ requests[k].url =
                          construct_send_email_endpoint(email_message.from_email)
    /\ step.kind = "finish" => index = batch_len + 1

\* The second message of a batch was refreshed for and then sent, and the
\* loop has moved past it.
C11_Witness ==
    /\ Attempted /\ step.index = 2 /\ pc = "loop" /\ index = 3
    /\ Len(requests) = 2 /\ IsRefresh(requests[1]) /\ IsSend(requests[2])
    /\ sends = 2

\* C12: over any sequence of open() and send_messages calls on one backend
\* at most one acquisition request is issued, and the first call issues it:
\* none while no session is held, exactly one once either has been called,
\* close() calls in between making no difference.  An open(),
\* alone or inside send_messages, on a backend that already holds a session
\* returns False, issues no request and leaves the stored token as it was.
C12_AcquireOnceOnFirstCall ==
    /\ [](/\ acquisitions <= 1
          /\ http_session = "None" <=> acquisitions = 0
          /\ method = "none" => http_session = "None"
          /\ method \in {"open", "send_messages"} =>
                (acquisitions = 1 /\ http_session = "Session")
          /\ Count(IsAcquire) > 0 => (step.kind = "open" /\ Len(requests) = 1))
    /\ [][(http_session # "None" /\ step'.kind = "open") =>
              /\ opened' = "False"
              /\ requests' = <<>>
              /\ access_token' = access_token
              /\ headers' = headers
              /\ acquisitions' = acquisitions]_vars

\* A later open() on a backend whose first call acquired a token.
C12_Witness ==
    /\ method = "open" /\ step.kind = "open" /\ opened = "False"
    /\ access_token # None /\ acquisitions = 1 /\ requests = <<>>

\* A credential that is neither passed to the constructor nor defined in
\* the settings.
Missing(arg, name) ==
    /\ ~Truthy(construction.kwargs[arg])
    /\ name \notin construction.settings

AnyMissing ==
    \/ Missing("client_id", "ADFS_CLIENT_ID")
    \/ Missing("client_secret", "ADFS_CLIENT_SECRET")
    \/ Missing("tenant_id", "ADFS_TENANT_ID")

\* C13: when the constructor has run with a client id, a client secret or a
\* tenant id that is neither passed in nor defined in the settings, it has
\* raised: the caller holds no backend (no credential and no token endpoint
\* was stored) and no request was issued.
C13_MissingCredentialFailsConstruction ==
    (construction.outcome # "pending" /\ AnyMissing) =>
        /\ construction.outcome = "AttributeError"
        /\ construction.client_id = "" /\ construction.client_secret = ""
        /\ construction.authority = Unset
        /\ requests = <<>> /\ acquisitions = 0 /\ http_session = "None"

\* Only the tenant id is missing: the other two come from the arguments,
\* and the settings define everything but ADFS_TENANT_ID.
C13_Witness ==
    /\ construction.outcome = "AttributeError"
    /\ construction.kwargs =
          [client_id |-> "given", client_secret |-> "given", tenant_id |-> "None"]
    /\ construction.settings = SettingNames \ {"ADFS_TENANT_ID"}

\* C14: with fail-silently off, a send_messages call that finds no access
\* token and obtains none raises; it never returns a count.  The call may
\* be the first one, or one made after an earlier call raised on a failed
\* acquisition.
C14_NoTokenRaises ==
    (~fail_silently /\ SendCall /\ step.kind = "open" /\ access_token = None)
        => pc = "raised"

\* C15: whenever a send request is issued, the stored token is live at the
\* clock reading taken for that message: reading < access_timestamp +
\* expires_in_seconds, whether the token was found live or was just obtained
\* by a refresh, one answered with expires_in = 0 included.
C15_SendWithLiveToken ==
    (Attempted /\ Count(IsSend) = 1) => Live(access_token, step.now)

\* C15, amended: whenever a send request is issued, the stored token is
\* live at the clock reading taken for that message, unless it was obtained
\* by a refresh for that very message whose response had expires_in = 0.
C15_SendWithLiveOrJustRefreshedToken ==
    (Attempted /\ Count(IsSend) = 1) =>
        /\ access_token # None
        /\ \/ Live(access_token, step.now)
           \/ /\ Count(IsRefresh) = 1
              /\ requests[1].response = "ok"
              /\ access_token.expires_in_seconds = 0

\* A message sent right after a refresh that returned a positive lifetime.
C15_Witness ==
    /\ Attempted /\ Len(requests) = 2
    /\ IsRefresh(requests[1]) /\ IsSend(requests[2])
    /\ access_token.expires_in_seconds = MaxExpires
    /\ Live(access_token, step.now)

\* The step just taken was an iteration whose refresh request failed / got
\* a token.
RefreshFailed(reqs) == reqs # <<>> /\ IsRefresh(reqs[1]) /\ Failed(reqs[1])

RefreshSucceeded(reqs) == reqs # <<>> /\ IsRefresh(reqs[1]) /\ ~Failed(reqs[1])

\* C16: a stored token changes only by a successful refresh, which replaces
\* all four fields together: value and refresh_token of one response, its
\* expires_in, and access_timestamp from a clock reading taken after the
\* message's.  A failed refresh (status or transport failure) leaves the
\* stored token as it was, with fail-silently on and off; no step takes a
\* stored token away.
C16_TokenChangesOnlyByRefresh ==
    [][/\ (access_token # None /\ access_token' # access_token) =>
             /\ step'.kind = "attempt" /\ RefreshSucceeded(requests')
             /\ \E g \in Grants :
                   /\ access_token'.value = g.access_token
                   /\ access_token'.refresh_token = g.refresh_token
             /\ access_token'.expires_in_seconds \in 0..MaxExpires
             /\ access_token'.access_timestamp = clock'
             /\ access_token'.access_timestamp >= step'.now
       /\ (step'.kind = "attempt" /\ RefreshFailed(requests')) =>
             /\ access_token' = access_token
             /\ headers' = headers
             /\ pc' = IF fail_silently THEN "loop" ELSE "raised"
      ]_vars

\* With fail-silently on, a second refresh in a row has failed and the
\* token acquired by open() is still the stored one.
C16_Witness ==
    /\ fail_silently /\ Attempted /\ RefreshFailed(requests)
    /\ refreshes = 2 /\ sends = 0
    /\ access_token # None
    /\ requests[1].credential = access_token.refresh_token

\* One more iteration of the loop, or its end, can be taken.
LoopStep == SkipMessage \/ SendLive \/ RefreshAndSend \/ RefreshFails \/ FinishLoop

\* C17: a failed refresh is the only request of its iteration (no second
\* refresh, no send); every iteration issues at most one refresh and at
\* most one send, so a call with a batch of N messages has issued at most
\* 1 + 2N requests.  The call terminates: inside the loop a step can always
\* be taken, and each one either ends the call or moves the position, which
\* never passes N + 1, on by one.  With fail-silently on, after a failed
\* refresh the token is stale at every later clock reading, so the next
\* message with recipients cannot be sent without a refresh request of its
\* own.
C17_OneRefreshPerMessage ==
    /\ Count(IsRefresh) <= 1 /\ Count(IsSend) <= 1
    /\ (Attempted /\ RefreshFailed(requests)) => Len(requests) = 1
    /\ SendCall =>
          /\ refreshes <= batch_len /\ sends <= batch_len
          /\ acquisitions + refreshes + sends <= 1 + 2 * batch_len
    /\ pc = "loop" =>
          /\ index \in 1..(batch_len + 1)
          /\ refreshes <= index - 1 /\ sends <= index - 1
          /\ step.kind \in {"skip", "attempt"} => index = step.index + 1
          /\ ENABLED LoopStep
    /\ (fail_silently /\ Attempted /\ RefreshFailed(requests)) =>
          /\ pc = "loop"
          /\ \A t \in clock..MaxTime : ~Live(access_token, t)
          /\ InLoop => (~ENABLED SendLive /\ ENABLED RefreshAndSend)

\* With fail-silently on, the first message's refresh failed and the second
\* message got a refresh of its own, which succeeded, and was sent.
C17_Witness ==
    /\ fail_silently /\ Attempted /\ step.index = 2
    /\ refreshes = 2 /\ sends = 1
    /\ RefreshSucceeded(requests) /\ Len(requests) = 2

\* C18: every refresh request is a grant_type=refresh_token request to the
\* token endpoint that carries the refresh token of the token stored when
\* it is issued: the one acquisition returned for the first refresh, the one
\* the most recent successful refresh returned for each later one.
C18_RefreshCarriesStoredRefreshToken ==
    [][\A k \in DOMAIN requests' :
          IsRefresh(requests'[k]) =>
              /\ access_token # None
              /\ requests'[k].credential = access_token.refresh_token
              /\ requests'[k].url = construct_token_endpoint(TenantId)
              /\ requests'[k].kind = "refresh_token"
      ]_vars

\* The second refresh of a call carried the refresh token that the first
\* one had returned, and got another one back.
C18_Witness ==
    /\ Attempted /\ RefreshSucceeded(requests) /\ refreshes = 2 /\ sends = 2
    /\ requests[1].credential = "refresh-2"
    /\ access_token.refresh_token = "refresh-1"

\* s contains a '<' and, later, a '>'.
BothAngles(s) ==
    \E i, j \in DOMAIN s : i < j /\ s[i] = "<" /\ s[j] = ">"

\* C19: sender normalization returns its input unchanged for every sender
\* that does not contain both a '<' and a later '>': senders without any
\* angle bracket, and senders with only a '<' or only a '>'.
C19_OtherSendersUnchanged ==
    (sender.normalized /\ ~BothAngles(sender.from_email)) =>
        sender.address = sender.from_email

\* C20: send_messages does not modify the messages it is given: once it has
\* handled a message, the message still is as the caller supplied it, the
\* display name of its sender included.
C20_MessagesNotModified ==
    step.kind \in {"skip", "attempt"} => email_message = step.given

\* C21: the access token does not outlive its session: once close() has
\* returned the backend holds no access token, and a send_messages call
\* that follows it issues an acquisition request, for a new session, before
\* anything else.
C21_TokenEndsWithSession ==
    /\ []((method = "close" /\ pc = "returned") => access_token = None)
    /\ [][(method = "close" /\ pc = "returned" /\ method' = "send_messages") =>
              /\ acquisitions' = acquisitions + 1
              /\ requests' # <<>> /\ IsAcquire(requests'[1])]_vars

\* C22: no send request and no refresh request is ever issued while the
\* backend holds no access token: the loop is entered only with a token,
\* and a step that issued a send or a refresh leaves one stored.  After a
\* failed acquisition, with fail-silently on or off, a later send_messages
\* call (one that does not itself issue the acquisition request) issues no
\* request at all and returns 0.
C22_NoRequestWithoutToken ==
    /\ pc = "loop" => access_token # None
    /\ (Count(IsSend) + Count(IsRefresh) > 0) => access_token # None
    /\ (SendCall /\ access_token = None) =>
          /\ sends = 0 /\ refreshes = 0 /\ index = 0
          /\ Count(IsSend) = 0 /\ Count(IsRefresh) = 0
          /\ step.kind = "open"
          /\ Count(IsAcquire) = 0 =>
                /\ acquisitions = 1
                /\ requests = <<>>
                /\ opened = "False"
                /\ pc = "returned" /\ result = 0

\* With fail-silently off, a send_messages call for a full batch on a
\* backend whose acquisition had failed.
C22_Witness ==
    /\ ~fail_silently /\ SendCall /\ access_token = None
    /\ acquisitions = 1 /\ requests = <<>>
    /\ batch_len = MaxLen /\ pc = "returned"

\* C23: sender normalization is idempotent: for every sender string,
\* normalizing the normalized sender gives the normalized sender again, so a
\* message object sent in a second batch goes to the same endpoint as in the
\* first; and a normalized sender holds no angle bracket.
C23_NormalizationIdempotent ==
    /\ sender.normalized => ~HasAngle(sender.address)
    /\ sender.resent =>
          /\ sender.again = sender.address
          /\ construct_send_email_endpoint(sender.again)
                = construct_send_email_endpoint(sender.address)

\* A sender with two '<' before its address, normalized twice.
C23_Witness ==
    /\ sender.resent
    /\ sender.from_email = <<"<", "<", "a">>
    /\ sender.again = <<"a">>

====
